---- MODULE Spec2Model ----
(***************************************************************************)
(* Badminton score keeper: the match reducer (utils/matchReducer.ts), the  *)
(* position resolver (getTeamPositions), the cap table (getMaxPoint) and   *)
(* the host hook that dispatches events (useMatchLogic).                   *)
(*                                                                         *)
(* JavaScript arrays are modelled as sequences; At/IndexOf keep the        *)
(* 0-based indices of the source.  null and undefined are the strings      *)
(* NULL and UNDEF; a nullable object (setFinishData) is a sequence of      *)
(* length 0 (null) or 1.                                                   *)
(***************************************************************************)
EXTENDS Integers, Sequences, FiniteSets, TLC

VARIABLES state, time, last, visited

vars == <<state, time, last, visited>>

\* ------------------------------------------------------------------ bounds
\* rallies at the start of a set whose winner the environment picks freely
FreeRallies == 3
\* rallies explored in a set that starts after sets have been won
NextSetRallies == 1
\* set completions explored in one match
MaxSets == 2
\* largest elapsed-seconds value the host timer reaches
MaxTime == 1
\* a match is restarted in a set break or this early in the first set
RestartRallies == 2

\* points scored while a set break lasts: the first by either side, the
\* following ones by the same side
BreakRallies == 4

\* sets completed in a match played out set after set
LongMatchSets == 6

\* ------------------------------------------------------- values and inputs
NULL == "null"
UNDEF == "undefined"

Sides == {"A", "B"}

OtherSide(side) == IF side = "A" THEN "B" ELSE "A"

ScoringSystems == {15, 21, 30}

SinglePlayers == [teamA |-> <<"a1">>, teamB |-> <<"b1">>]

DoublePlayers == [teamA |-> <<"a1", "a2">>, teamB |-> <<"b1", "b2">>]

\* ----------------------------------------------------- JavaScript helpers
SeqToSet(seq) == {seq[i] : i \in 1..Len(seq)}

\* arr[i], 0-based; undefined outside the array
At(arr, i) == IF i >= 0 /\ i < Len(arr) THEN arr[i + 1] ELSE UNDEF

\* arr.indexOf(x): first 0-based index, -1 when absent
IndexOf(arr, x) ==
  IF \E i \in 1..Len(arr) : arr[i] = x
    THEN (CHOOSE i \in 1..Len(arr) :
            arr[i] = x /\ \A j \in 1..(i - 1) : arr[j] # x) - 1
    ELSE -1

Includes(arr, x) == \E i \in 1..Len(arr) : arr[i] = x

\* Math.max(0, i)
Max0(i) == IF i < 0 THEN 0 ELSE i

\* a ?? b
Coalesce(a, b) == IF a = NULL \/ a = UNDEF THEN b ELSE a

\* arr.slice(-2)
SliceLast2(arr) ==
  IF Len(arr) <= 2 THEN arr ELSE <<arr[Len(arr) - 1], arr[Len(arr)]>>

\* arr.slice(0, -1)
SliceButLast(arr) ==
  IF Len(arr) = 0 THEN <<>> ELSE SubSeq(arr, 1, Len(arr) - 1)

\* ------------------------------------------------------------ getMaxPoint
\* a cap of 30 for every target
getMaxPointAlwaysThirty(system) == 30

getMaxPoint(system) ==
  IF system = 15 THEN 21
  ELSE IF system = 21 THEN 30
  ELSE 30

\* -------------------------------------------------------- getTeamPositions
\* rally positions that leave the serving pair where it stood on an odd score
rallyPositionsNoSwap(servingSide, teamA, teamB, server, partnerServer, isEvenA, isEvenB) ==
  LET keepA == <<At(teamA, 0), At(teamA, 1)>>
      keepB == <<At(teamB, 0), At(teamB, 1)>>
  IN  IF servingSide = "A"
        THEN [teamA |-> <<partnerServer, server>>, teamB |-> keepB]
        ELSE [teamA |-> keepA, teamB |-> <<server, partnerServer>>]

\* rally positions that turn the other pair round as well
rallyPositionsTurnsOthers(servingSide, teamA, teamB, server, partnerServer, isEvenA, isEvenB) ==
  LET turnA == <<At(teamA, 1), At(teamA, 0)>>
      turnB == <<At(teamB, 1), At(teamB, 0)>>
  IN  IF servingSide = "A" /\ isEvenA
        THEN [teamA |-> <<partnerServer, server>>, teamB |-> turnB]
      ELSE IF servingSide = "A" /\ ~isEvenA
        THEN [teamA |-> <<server, partnerServer>>, teamB |-> turnB]
      ELSE IF servingSide = "B" /\ isEvenB
        THEN [teamA |-> turnA, teamB |-> <<server, partnerServer>>]
      ELSE IF servingSide = "B" /\ ~isEvenB
        THEN [teamA |-> turnA, teamB |-> <<partnerServer, server>>]
      ELSE [teamA |-> turnA, teamB |-> turnB]

\* positions during the rally: the serving side by its score parity, the
\* other side as passed in
rallyPositions(servingSide, teamA, teamB, server, partnerServer, isEvenA, isEvenB) ==
  LET keepA == <<At(teamA, 0), At(teamA, 1)>>
      keepB == <<At(teamB, 0), At(teamB, 1)>>
  IN  IF servingSide = "A" /\ isEvenA
        THEN [teamA |-> <<partnerServer, server>>, teamB |-> keepB]
      ELSE IF servingSide = "A" /\ ~isEvenA
        THEN [teamA |-> <<server, partnerServer>>, teamB |-> keepB]
      ELSE IF servingSide = "B" /\ isEvenB
        THEN [teamA |-> keepA, teamB |-> <<server, partnerServer>>]
      ELSE IF servingSide = "B" /\ ~isEvenB
        THEN [teamA |-> keepA, teamB |-> <<partnerServer, server>>]
      ELSE [teamA |-> keepA, teamB |-> keepB]

\* positions at 0-0 with the receiver put in the left court
initialPositionsReceiverLeft(servingSide, server, partnerServer, receiver, partnerReceiver) ==
  IF servingSide = "A"
    THEN [teamA |-> <<partnerServer, server>>,
          teamB |-> <<partnerReceiver, receiver>>]
    ELSE [teamA |-> <<receiver, partnerReceiver>>,
          teamB |-> <<server, partnerServer>>]

\* positions at 0-0: side A is [left, right], side B is [right, left]
initialPositions(servingSide, server, partnerServer, receiver, partnerReceiver) ==
  IF servingSide = "A"
    THEN [teamA |-> <<partnerServer, server>>,
          teamB |-> <<receiver, partnerReceiver>>]
    ELSE [teamA |-> <<partnerReceiver, receiver>>,
          teamB |-> <<server, partnerServer>>]

getTeamPositions(servingSide, team, serverName, receiverName, pointsA, pointsB) ==
  LET teamA == team.teamA
      teamB == team.teamB
      isSingle == Len(teamA) = 1 /\ Len(teamB) = 1
      servingSiderTeam == IF servingSide = "A" THEN teamA ELSE teamB
      opponentTeam == IF servingSide = "A" THEN teamB ELSE teamA
      sIdx == Max0(IndexOf(servingSiderTeam, serverName))
      oIdx == Max0(IndexOf(opponentTeam, receiverName))
      server == At(servingSiderTeam, sIdx)
      partnerServer == At(servingSiderTeam, 1 - sIdx)
      receiver == At(opponentTeam, oIdx)
      partnerReceiver == At(opponentTeam, 1 - oIdx)
      isEvenA == pointsA % 2 = 0
      isEvenB == pointsB % 2 = 0
  IN  IF isSingle
        THEN [teamA |-> <<teamA[1], teamA[1]>>, teamB |-> <<teamB[1], teamB[1]>>]
      ELSE IF pointsA = 0 /\ pointsB = 0
        THEN initialPositions(servingSide, server, partnerServer,
                              receiver, partnerReceiver)
      ELSE rallyPositions(servingSide, teamA, teamB, server, partnerServer,
                          isEvenA, isEvenB)

\* ------------------------------------------------------------ initialState
\* a blank state that still lists the winners of two earlier rallies
initialStateOldWinners ==
  [pointsA |-> 0, setsA |-> 0, pointsB |-> 0, setsB |-> 0,
   players |-> [teamA |-> <<>>, teamB |-> <<>>],
   currentSetPointHistory |-> <<>>,
   serverSide |-> NULL, currentServer |-> NULL, currentReceiver |-> NULL,
   nextServer |-> NULL,
   serveOrder |-> <<>>, serveIndex |-> 0,
   scoringSystem |-> 21,
   currentSetStartTime |-> 0,
   setFinishData |-> <<>>,
   matchHistory |-> <<>>,
   receiverOffsetA |-> 0, receiverOffsetB |-> 0,
   lastTwoPointWinners |-> <<"A", "A">>]

initialState ==
  [pointsA |-> 0, setsA |-> 0, pointsB |-> 0, setsB |-> 0,
   players |-> [teamA |-> <<>>, teamB |-> <<>>],
   currentSetPointHistory |-> <<>>,
   serverSide |-> NULL, currentServer |-> NULL, currentReceiver |-> NULL,
   nextServer |-> NULL,
   serveOrder |-> <<>>, serveIndex |-> 0,
   scoringSystem |-> 21,
   currentSetStartTime |-> 0,
   setFinishData |-> <<>>,
   matchHistory |-> <<>>,
   receiverOffsetA |-> 0, receiverOffsetB |-> 0,
   lastTwoPointWinners |-> <<>>]

\* ---------------------------------------------------------- createSnapshot
\* a snapshot that forgets the rotation index
createSnapshotNoIndex(s) ==
  [pointsA |-> s.pointsA, setsA |-> s.setsA,
   pointsB |-> s.pointsB, setsB |-> s.setsB,
   serverSide |-> s.serverSide,
   currentServer |-> s.currentServer,
   currentReceiver |-> s.currentReceiver,
   nextServer |-> s.nextServer,
   serveIndex |-> 0,
   players |-> [teamA |-> s.players.teamA, teamB |-> s.players.teamB]]

createSnapshot(s) ==
  [pointsA |-> s.pointsA, setsA |-> s.setsA,
   pointsB |-> s.pointsB, setsB |-> s.setsB,
   serverSide |-> s.serverSide,
   currentServer |-> s.currentServer,
   currentReceiver |-> s.currentReceiver,
   nextServer |-> s.nextServer,
   serveIndex |-> s.serveIndex,
   players |-> [teamA |-> s.players.teamA, teamB |-> s.players.teamB]]

\* --------------------------------------------------- reducer: START_MATCH
\* a rotation in which the server's partner serves second
doublesRotationPartnerSecond(a, d, c, b) == <<a, c, d, b>>

\* server, receiver's partner, server's partner, receiver
doublesRotation(a, d, c, b) == <<a, d, c, b>>

START_MATCH(newPlayers, firstServe, firstServerName, opponentReceiverName, scoringSystemParam, startTime) ==
  LET teamA == newPlayers.teamA
      teamB == newPlayers.teamB
      single == Len(teamA) = 1
      teamPositions ==
        IF single THEN newPlayers
        ELSE getTeamPositions(firstServe, newPlayers, firstServerName,
                              opponentReceiverName, 0, 0)
      firstServerTeam == IF firstServe = "A" THEN teamA ELSE teamB
      opponentTeam == IF firstServe = "A" THEN teamB ELSE teamA
      sIdx == Max0(IndexOf(firstServerTeam, firstServerName))
      oIdx == Max0(IndexOf(opponentTeam, opponentReceiverName))
      a == At(firstServerTeam, sIdx)
      b == At(opponentTeam, oIdx)
      c == At(firstServerTeam, 1 - sIdx)
      d == At(opponentTeam, 1 - oIdx)
      server == IF single THEN At(firstServerTeam, 0) ELSE firstServerName
      receiver == IF single THEN At(opponentTeam, 0) ELSE opponentReceiverName
      rotation == IF single THEN <<server, receiver>> ELSE doublesRotation(a, d, c, b)
      initIndex == IndexOf(rotation, firstServerName)
      startIndex == IF initIndex >= 0 THEN initIndex ELSE 0
  IN  [initialState EXCEPT
         !.players = teamPositions,
         !.scoringSystem = scoringSystemParam,
         !.currentSetStartTime = startTime,
         !.serveOrder = rotation,
         !.serveIndex = startIndex,
         !.nextServer = At(rotation, (startIndex + 1) % Len(rotation)),
         !.serverSide = firstServe,
         !.currentServer = server,
         !.currentReceiver = receiver]

\* ----------------------------------------------------- reducer: INCREMENT
\* a point that is also credited to the other side
newPointsCreditsBoth(s, side) ==
  [A |-> s.pointsA + 1, B |-> s.pointsB + 1]

newPoints(s, side) ==
  [A |-> IF side = "A" THEN s.pointsA + 1 ELSE s.pointsA,
   B |-> IF side = "B" THEN s.pointsB + 1 ELSE s.pointsB]

\* a set that ends on reaching the target, whatever the margin
isSetFinishedNoMargin(s, side, maxPoint) ==
  LET np == newPoints(s, side)
  IN  \/ np.A >= s.scoringSystem
      \/ np.B >= s.scoringSystem
      \/ np.A = maxPoint
      \/ np.B = maxPoint

\* a completion test that wants the target exceeded
isSetFinishedAboveTarget(s, side, maxPoint) ==
  LET np == newPoints(s, side)
  IN  \/ (np.A > s.scoringSystem /\ np.A - np.B >= 2)
      \/ (np.B > s.scoringSystem /\ np.B - np.A >= 2)
      \/ np.A = maxPoint
      \/ np.B = maxPoint

isSetFinished(s, side, maxPoint) ==
  LET np == newPoints(s, side)
  IN  \/ (np.A >= s.scoringSystem /\ np.A - np.B >= 2)
      \/ (np.B >= s.scoringSystem /\ np.B - np.A >= 2)
      \/ np.A = maxPoint
      \/ np.B = maxPoint

\* the winners loop over adjacent snapshots of a point history
RECURSIVE pointWinners(_, _)
pointWinners(gameHistory, i) ==
  IF i > Len(gameHistory) THEN <<>>
  ELSE LET prev == gameHistory[i - 1]
           cur == gameHistory[i]
           w == IF cur.pointsA > prev.pointsA THEN <<"A">>
                ELSE IF cur.pointsB > prev.pointsB THEN <<"B">>
                ELSE <<>>
       IN  w \o pointWinners(gameHistory, i + 1)

\* a default server taken as derived, whichever side it is on
ensureOnWinningTeamSkipped(winnerTeam, derived) == derived

\* the default server is forced onto the winning team
ensureOnWinningTeam(winnerTeam, derived) ==
  IF ~Includes(winnerTeam, derived) THEN At(winnerTeam, 0) ELSE derived

\* a completed set that takes the place of the sets recorded before it
appendGameReplaces(matchHistory, data) == <<data>>

\* the completed set goes to the end of the list
appendGame(matchHistory, data) == Append(matchHistory, data)

finishSet(s, side, t) ==
  LET np == newPoints(s, side)
      currentStateSnapshot == createSnapshot(s)
      winnerSide == IF np.A > np.B THEN "A" ELSE "B"
      newSetsA == s.setsA + (IF winnerSide = "A" THEN 1 ELSE 0)
      newSetsB == s.setsB + (IF winnerSide = "B" THEN 1 ELSE 0)
      finalPointSnapshot ==
        [currentStateSnapshot EXCEPT
           !.pointsA = np.A, !.pointsB = np.B,
           !.setsA = newSetsA, !.setsB = newSetsB]
      gameHistory ==
        s.currentSetPointHistory \o <<currentStateSnapshot, finalPointSnapshot>>
      winners == pointWinners(gameHistory, 2)
      lastTwo == SliceLast2(winners)
      data ==
        [gameNumber |-> Len(s.matchHistory) + 1,
         pointsA |-> np.A, pointsB |-> np.B,
         duration |-> t - s.currentSetStartTime,
         winnerSide |-> winnerSide,
         pointHistory |-> gameHistory]
      winnerTeam == IF winnerSide = "A" THEN s.players.teamA ELSE s.players.teamB
      loserTeam == IF winnerSide = "A" THEN s.players.teamB ELSE s.players.teamA
      lastServerIndex == IndexOf(s.serveOrder, s.currentServer)
      derived ==
        IF Len(lastTwo) = 2 /\ Len(s.serveOrder) > 0
          THEN IF lastTwo[1] = lastTwo[2]
                 THEN Coalesce(s.currentServer, At(winnerTeam, 0))
               ELSE IF lastServerIndex # -1
                 THEN At(s.serveOrder, (lastServerIndex + 2) % Len(s.serveOrder))
               ELSE At(winnerTeam, 0)
          ELSE Coalesce(s.currentServer, At(winnerTeam, 0))
      defaultNextServer == ensureOnWinningTeam(winnerTeam, derived)
      isSingle == Len(s.players.teamA) = 1
      teamPositions ==
        IF isSingle THEN s.players
        ELSE getTeamPositions(winnerSide, s.players, defaultNextServer,
                              s.currentReceiver, np.A, np.B)
      defaultNextReceiver ==
        IF winnerSide = "A" THEN At(loserTeam, 0) ELSE At(loserTeam, 1)
  IN  [s EXCEPT
         !.pointsA = np.A, !.pointsB = np.B,
         !.setsA = newSetsA, !.setsB = newSetsB,
         !.setFinishData = <<data>>,
         !.matchHistory = appendGame(s.matchHistory, data),
         !.lastTwoPointWinners = lastTwo,
         !.currentServer = defaultNextServer,
         !.currentReceiver = defaultNextReceiver,
         !.players = teamPositions,
         !.currentSetPointHistory = <<>>]

\* a receiver read from the wrong slot when side B serves
pickReceiverSwappedB(newServerSide, isSingle, teamPositions, isEvenA, isEvenB) ==
  IF isSingle
    THEN IF newServerSide = "A" THEN At(teamPositions.teamB, 0)
         ELSE IF newServerSide = "B" THEN At(teamPositions.teamA, 0)
         ELSE NULL
  ELSE IF newServerSide = "A" /\ isEvenA THEN At(teamPositions.teamB, 0)
  ELSE IF newServerSide = "A" /\ ~isEvenA THEN At(teamPositions.teamB, 1)
  ELSE IF newServerSide = "B" /\ isEvenB THEN At(teamPositions.teamA, 0)
  ELSE IF newServerSide = "B" /\ ~isEvenB THEN At(teamPositions.teamA, 1)
  ELSE NULL

\* a singles receiver read from the roster of the serving side
pickReceiverSinglesOwnSide(newServerSide, isSingle, teamPositions, isEvenA, isEvenB) ==
  IF isSingle
    THEN IF newServerSide = "A" THEN At(teamPositions.teamA, 0)
         ELSE IF newServerSide = "B" THEN At(teamPositions.teamB, 0)
         ELSE NULL
  ELSE IF newServerSide = "A" /\ isEvenA THEN At(teamPositions.teamB, 0)
  ELSE IF newServerSide = "A" /\ ~isEvenA THEN At(teamPositions.teamB, 1)
  ELSE IF newServerSide = "B" /\ isEvenB THEN At(teamPositions.teamA, 1)
  ELSE IF newServerSide = "B" /\ ~isEvenB THEN At(teamPositions.teamA, 0)
  ELSE NULL

\* a receiver read from the first slot whatever the score
pickReceiverIgnoresParity(newServerSide, isSingle, teamPositions, isEvenA, isEvenB) ==
  IF newServerSide = "A" THEN At(teamPositions.teamB, 0)
  ELSE IF newServerSide = "B" THEN At(teamPositions.teamA, 0)
  ELSE NULL

\* the receiver of the next rally, read from the new positions
pickReceiver(newServerSide, isSingle, teamPositions, isEvenA, isEvenB) ==
  IF isSingle
    THEN IF newServerSide = "A" THEN At(teamPositions.teamB, 0)
         ELSE IF newServerSide = "B" THEN At(teamPositions.teamA, 0)
         ELSE NULL
  ELSE IF newServerSide = "A" /\ isEvenA THEN At(teamPositions.teamB, 0)
  ELSE IF newServerSide = "A" /\ ~isEvenA THEN At(teamPositions.teamB, 1)
  ELSE IF newServerSide = "B" /\ isEvenB THEN At(teamPositions.teamA, 1)
  ELSE IF newServerSide = "B" /\ ~isEvenB THEN At(teamPositions.teamA, 0)
  ELSE NULL

\* a rotation that skips a player on every serve change
advanceIndexByTwo(serveIndex, length) == (serveIndex + 2) % length

\* the next index of the rotation, wrapping around
advanceIndex(serveIndex, length) == (serveIndex + 1) % length

recordPoint(s, side) ==
  LET np == newPoints(s, side)
      isEvenA == np.A % 2 = 0
      isEvenB == np.B % 2 = 0
      prevServerSide == s.serverSide
      isServeChange == side # prevServerSide
      rotate == isServeChange /\ Len(s.serveOrder) > 0
      newServeIndex ==
        IF rotate THEN advanceIndex(s.serveIndex, Len(s.serveOrder)) ELSE s.serveIndex
      newServer ==
        IF rotate THEN At(s.serveOrder, newServeIndex) ELSE s.currentServer
      newNext ==
        IF rotate
          THEN At(s.serveOrder, (newServeIndex + 1) % Len(s.serveOrder))
          ELSE s.nextServer
      newServerSide ==
        IF rotate
          THEN (IF Includes(s.players.teamA, newServer) THEN "A" ELSE "B")
          ELSE Coalesce(prevServerSide, side)
      isSingle == Len(s.players.teamA) = 1
      teamPositions ==
        IF isSingle THEN s.players
        ELSE getTeamPositions(side, s.players, newServer, s.currentReceiver,
                              np.A, np.B)
      newReceiver ==
        pickReceiver(newServerSide, isSingle, teamPositions, isEvenA, isEvenB)
  IN  [s EXCEPT
         !.pointsA = np.A, !.pointsB = np.B,
         !.currentSetPointHistory =
            Append(s.currentSetPointHistory, createSnapshot(s)),
         !.serverSide = newServerSide,
         !.currentServer = newServer,
         !.nextServer = newNext,
         !.serveIndex = newServeIndex,
         !.currentReceiver = newReceiver,
         !.players = teamPositions]

INCREMENT(s, side, maxPoint, t) ==
  IF isSetFinished(s, side, maxPoint)
    THEN finishSet(s, side, t)
    ELSE recordPoint(s, side)

\* ---------------------------------------------------------- reducer: UNDO
\* an empty-history undo that zeroes the scores
undoEmptyZeroes(s) == [s EXCEPT !.pointsA = 0, !.pointsB = 0]

\* an empty-history undo that takes the finished set back
undoEmptyReopens(s) ==
  IF Len(s.setFinishData) = 0 THEN s
  ELSE [s EXCEPT
          !.setFinishData = <<>>,
          !.matchHistory = SliceButLast(s.matchHistory),
          !.setsA = IF s.setFinishData[1].winnerSide = "A"
                      THEN s.setsA - 1 ELSE s.setsA,
          !.setsB = IF s.setFinishData[1].winnerSide = "B"
                      THEN s.setsB - 1 ELSE s.setsB]

\* the early return on an empty current-set history
undoEmpty(s) == s

\* a restore that forgets side B's score
restoreSnapshotKeepsB(s, lastState) ==
  [s EXCEPT
     !.pointsA = lastState.pointsA, !.setsA = lastState.setsA,
     !.setsB = lastState.setsB,
     !.serverSide = lastState.serverSide,
     !.currentServer = lastState.currentServer,
     !.currentReceiver = lastState.currentReceiver,
     !.nextServer = lastState.nextServer,
     !.serveIndex = lastState.serveIndex,
     !.players = lastState.players,
     !.currentSetPointHistory = SliceButLast(s.currentSetPointHistory)]

\* { ...state, ...lastState, currentSetPointHistory: slice(0, -1) }
\* a restore that leaves the current server in place
restoreSnapshotKeepsServer(s, lastState) ==
  [s EXCEPT
     !.pointsA = lastState.pointsA, !.setsA = lastState.setsA,
     !.pointsB = lastState.pointsB, !.setsB = lastState.setsB,
     !.serverSide = lastState.serverSide,
     !.currentReceiver = lastState.currentReceiver,
     !.nextServer = lastState.nextServer,
     !.serveIndex = lastState.serveIndex,
     !.players = lastState.players,
     !.currentSetPointHistory = SliceButLast(s.currentSetPointHistory)]

restoreSnapshot(s, lastState) ==
  [s EXCEPT
     !.pointsA = lastState.pointsA, !.setsA = lastState.setsA,
     !.pointsB = lastState.pointsB, !.setsB = lastState.setsB,
     !.serverSide = lastState.serverSide,
     !.currentServer = lastState.currentServer,
     !.currentReceiver = lastState.currentReceiver,
     !.nextServer = lastState.nextServer,
     !.serveIndex = lastState.serveIndex,
     !.players = lastState.players,
     !.currentSetPointHistory = SliceButLast(s.currentSetPointHistory)]

UNDO(s) ==
  IF Len(s.currentSetPointHistory) = 0 THEN undoEmpty(s)
  ELSE restoreSnapshot(s, s.currentSetPointHistory[Len(s.currentSetPointHistory)])

\* --------------------------------------------- reducer: CONTINUE_NEXT_SET
\* a next set that keeps the last two point winners of the finished one
CONTINUE_NEXT_SET_KeepsWinners(s, startTime, nextServerName, nextReceiverName) ==
  LET players == s.players
      isSingle == Len(players.teamA) = 1
      serverTeam ==
        IF Includes(players.teamA, nextServerName)
          THEN players.teamA ELSE players.teamB
      receiverTeam ==
        IF Includes(players.teamA, nextReceiverName)
          THEN players.teamA ELSE players.teamB
      sIdx == Max0(IndexOf(serverTeam, nextServerName))
      oIdx == Max0(IndexOf(receiverTeam, nextReceiverName))
      serverPartner == At(serverTeam, 1 - sIdx)
      receiverPartner == At(receiverTeam, 1 - oIdx)
      newServeOrder ==
        IF isSingle THEN <<nextServerName, nextReceiverName>>
        ELSE IF Len(players.teamA) > 1
          THEN <<nextServerName, receiverPartner, serverPartner, nextReceiverName>>
        ELSE s.serveOrder
      teamPositions ==
        IF isSingle THEN s.players
        ELSE getTeamPositions(s.serverSide, s.players, nextServerName,
                              nextReceiverName, 0, 0)
  IN  [s EXCEPT
         !.pointsA = 0, !.pointsB = 0,
         !.currentServer = nextServerName,
         !.serverSide =
            IF Includes(players.teamA, nextServerName) THEN "A" ELSE "B",
         !.currentReceiver = nextReceiverName,
         !.currentSetStartTime = startTime,
         !.setFinishData = <<>>,
         !.currentSetPointHistory = <<>>,
         !.serveOrder = newServeOrder,
         !.serveIndex = 0,
         !.nextServer = Coalesce(At(newServeOrder, 1), NULL),
         !.players = teamPositions]

CONTINUE_NEXT_SET(s, startTime, nextServerName, nextReceiverName) ==
  LET players == s.players
      isSingle == Len(players.teamA) = 1
      serverTeam ==
        IF Includes(players.teamA, nextServerName)
          THEN players.teamA ELSE players.teamB
      receiverTeam ==
        IF Includes(players.teamA, nextReceiverName)
          THEN players.teamA ELSE players.teamB
      sIdx == Max0(IndexOf(serverTeam, nextServerName))
      oIdx == Max0(IndexOf(receiverTeam, nextReceiverName))
      serverPartner == At(serverTeam, 1 - sIdx)
      receiverPartner == At(receiverTeam, 1 - oIdx)
      newServeOrder ==
        IF isSingle THEN <<nextServerName, nextReceiverName>>
        ELSE IF Len(players.teamA) > 1
          THEN <<nextServerName, receiverPartner, serverPartner, nextReceiverName>>
        ELSE s.serveOrder
      teamPositions ==
        IF isSingle THEN s.players
        ELSE getTeamPositions(s.serverSide, s.players, nextServerName,
                              nextReceiverName, 0, 0)
  IN  [s EXCEPT
         !.pointsA = 0, !.pointsB = 0,
         !.currentServer = nextServerName,
         !.serverSide =
            IF Includes(players.teamA, nextServerName) THEN "A" ELSE "B",
         !.currentReceiver = nextReceiverName,
         !.currentSetStartTime = startTime,
         !.setFinishData = <<>>,
         !.currentSetPointHistory = <<>>,
         !.lastTwoPointWinners = <<>>,
         !.serveOrder = newServeOrder,
         !.serveIndex = 0,
         !.nextServer = Coalesce(At(newServeOrder, 1), NULL),
         !.players = teamPositions]

\* ------------------------------------------------- reducer: RESET_HISTORY
\* a reset that also closes the set break
RESET_HISTORY_ClosesBreak(s) == [s EXCEPT !.matchHistory = <<>>, !.setFinishData = <<>>]

RESET_HISTORY(s) == [s EXCEPT !.matchHistory = <<>>]

\* ------------------------------------------------------ host: useMatchLogic
\* the page renders the match interface only once a roster is set
isMatchStarted(s) == Len(s.players.teamA) > 0

\* who won the rally that led from snapshot prev to snapshot cur
rallyWinner(prev, cur) == IF cur.pointsA > prev.pointsA THEN "A" ELSE "B"

\* The scorer's input between the free opening rallies and the game points
\* follows the pattern of the last two rallies: a run goes on, an
\* alternation goes on.
Scripted(s) ==
  LET h == s.currentSetPointHistory
      n == Len(h)
      w1 == rallyWinner(h[n], s)
      w2 == rallyWinner(h[n - 1], h[n])
  IN  IF n < 2 THEN NULL ELSE IF w1 = w2 THEN w1 ELSE OtherSide(w1)

GamePoint(s) ==
  \E side \in Sides : isSetFinished(s, side, getMaxPoint(s.scoringSystem))

Close(s) == s.pointsA - s.pointsB \in {-1, 0, 1}

\* the rallies the environment plays; in a set break one more set at most is
\* completed by a stray point
RallyAllowed(s, side) ==
  /\ isSetFinished(s, side, getMaxPoint(s.scoringSystem))
       => s.setsA + s.setsB < MaxSets
  /\ IF s.setsA + s.setsB = 0
       THEN \/ Len(s.currentSetPointHistory) < FreeRallies
            \/ (GamePoint(s) /\ Close(s))
            \/ side = Scripted(s)
       ELSE IF Len(s.setFinishData) = 1
         THEN /\ isSetFinished(s, side, getMaxPoint(s.scoringSystem))
                   => Len(s.setFinishData[1].pointHistory) > 2
              /\ Len(s.currentSetPointHistory) < BreakRallies
              /\ IF Len(s.currentSetPointHistory) = 0 THEN TRUE
                 ELSE side = rallyWinner(
                        s.currentSetPointHistory[Len(s.currentSetPointHistory)], s)
       ELSE Len(s.currentSetPointHistory) < NextSetRallies

\* server and receiver names the start form can submit
StartChoices ==
  {[players |-> SinglePlayers, firstServe |-> fs,
    server |-> (IF fs = "A" THEN "a1" ELSE "b1"),
    receiver |-> (IF fs = "A" THEN "b1" ELSE "a1")] : fs \in Sides}
  \cup
  {[players |-> DoublePlayers, firstServe |-> fs, server |-> sv, receiver |-> rc] :
     fs \in Sides, sv \in {"a1", "a2", "b1", "b2"}, rc \in {"a1", "a2", "b1", "b2"}}

ValidStart(c) ==
  LET mine == IF c.firstServe = "A" THEN c.players.teamA ELSE c.players.teamB
      theirs == IF c.firstServe = "A" THEN c.players.teamB ELSE c.players.teamA
  IN  Includes(mine, c.server) /\ Includes(theirs, c.receiver)

\* server from one side, receiver from the other
NextSetChoices(s) ==
  {p \in SeqToSet(s.players.teamA \o s.players.teamB)
         \X SeqToSet(s.players.teamA \o s.players.teamB) :
     Includes(s.players.teamA, p[1]) # Includes(s.players.teamA, p[2])}

\* a set break is continued when the finished set was played out to the
\* target without extension, not when it is a stray point scored during the
\* break
ContinueExplored(s) ==
  /\ Len(s.currentSetPointHistory) = 0
  /\ Len(s.setFinishData[1].pointHistory) > 2
  /\ s.setFinishData[1].pointsA <= s.scoringSystem
  /\ s.setFinishData[1].pointsB <= s.scoringSystem

Boundary == {"FINISH", "CONTINUE"}

\* the last event dispatched; for an Undo or a StartMatch, whether it came
\* right after a set completion or a set start; pending lists the scoring
\* sides of the IncrementPoint events dispatched since the last set start or
\* set completion and not taken back by an Undo since
Event(type, side) ==
  [type |-> type, side |-> side,
   afterBoundary |-> type \in {"UNDO", "UNDO_EMPTY", "START"}
                       /\ last.type \in Boundary,
   pending |-> IF type = "POINT" THEN Append(last.pending, side)
               ELSE IF type \in {"UNDO", "UNDO_EMPTY"}
                 THEN SliceButLast(last.pending)
               ELSE IF type \in {"START", "CONTINUE", "FINISH"} THEN <<>>
               ELSE last.pending]

\* ----------------------------------------------------------------- actions
\* one dispatch of each event, without the choice of who dispatches it when
StartMatchStep(c, sys) ==
  /\ state' = START_MATCH(c.players, c.firstServe, c.server, c.receiver, sys, 0)
  /\ time' = 0
  /\ last' = Event("START", NULL)

IncrementStep(side) ==
  /\ state' = INCREMENT(state, side, getMaxPoint(state.scoringSystem), time)
  /\ last' = Event(IF isSetFinished(state, side, getMaxPoint(state.scoringSystem))
                     THEN "FINISH" ELSE "POINT", side)
  /\ UNCHANGED time

UndoStep ==
  /\ state' = UNDO(state)
  /\ last' = Event(IF Len(state.currentSetPointHistory) = 0
                     THEN "UNDO_EMPTY" ELSE "UNDO", NULL)
  /\ UNCHANGED time

\* continueNextSet returns unless a set has just finished; the names it sends
\* are the ones the set-finish dialog has stored in the state with
\* SET_NEXT_SERVER and SET_NEXT_RECEIVER: a server of one side, a receiver of
\* the other
ContinueStep ==
  /\ Len(state.setFinishData) = 1
  /\ ContinueExplored(state)
  /\ \E p \in NextSetChoices(state) :
       state' = CONTINUE_NEXT_SET(state, time, p[1], p[2])
  /\ last' = Event("CONTINUE", NULL)
  /\ UNCHANGED time

ResetStep ==
  /\ isMatchStarted(state)
  /\ state' = RESET_HISTORY(state)
  /\ UNCHANGED <<time, last>>

Init ==
  /\ state = initialState
  /\ time = 0
  /\ last = [type |-> "INIT", side |-> NULL, afterBoundary |-> FALSE,
            pending |-> <<>>]
  /\ visited = {}

StartMatch ==
  \E c \in StartChoices, sys \in ScoringSystems :
    /\ ValidStart(c)
    /\ Len(state.currentSetPointHistory) < RestartRallies
    /\ \/ state.setsA + state.setsB = 0
       \/ (Len(state.setFinishData) = 1 /\ (state.pointsA = 0 \/ state.pointsB = 0))
    /\ StartMatchStep(c, sys)
    /\ UNCHANGED visited

IncrementPoint(side) ==
  /\ isMatchStarted(state)
  /\ RallyAllowed(state, side)
  /\ IncrementStep(side)
  /\ UNCHANGED visited

Undo ==
  /\ UndoStep
  /\ UNCHANGED visited

StartNextSet ==
  /\ ContinueStep
  /\ UNCHANGED visited

ResetHistory ==
  /\ ResetStep
  /\ UNCHANGED visited

Next ==
  \/ StartMatch
  \/ \E side \in Sides : IncrementPoint(side)
  \/ Undo
  \/ StartNextSet
  \/ ResetHistory

Spec == Init /\ [][Next]_vars

\* ------------------------------------------- the same machine, run recorded
\* Every state the reducer has been in is kept in visited.  The scorer's
\* input is narrower here: target 15; in the first set the receiving side
\* wins the first rally and every rally after it; later sets and set breaks
\* see NextSetRallies rallies, the first won by either side and the
\* following ones by the same side.
Record == visited' = visited \cup {state'}

RecordedStartChoices ==
  {c \in StartChoices :
     ValidStart(c) /\ c.server \in {"a1", "b1"} /\ c.receiver \in {"a1", "b1"}}

RecordedRally(s, side) ==
  LET h == s.currentSetPointHistory
  IN  /\ isSetFinished(s, side, getMaxPoint(s.scoringSystem))
           => s.setsA + s.setsB < MaxSets
      /\ IF Len(h) = 0 THEN s.setsA + s.setsB > 0 \/ side = OtherSide(s.serverSide)
         ELSE IF s.setsA + s.setsB > 0 /\ Len(h) >= NextSetRallies THEN FALSE
         ELSE side = rallyWinner(h[Len(h)], s)

InitRecorded ==
  /\ state = initialState
  /\ time = 0
  /\ last = [type |-> "INIT", side |-> NULL, afterBoundary |-> FALSE,
            pending |-> <<>>]
  /\ visited = {initialState}

RecordedStartMatch ==
  \E c \in RecordedStartChoices :
    /\ ~isMatchStarted(state)
    /\ StartMatchStep(c, 15)
    /\ Record

RecordedIncrementPoint(side) ==
  /\ isMatchStarted(state)
  /\ RecordedRally(state, side)
  /\ IncrementStep(side)
  /\ Record

RecordedUndo ==
  /\ UndoStep
  /\ Record

RecordedStartNextSet ==
  /\ ContinueStep
  /\ Record

RecordedResetHistory ==
  /\ ResetStep
  /\ Record

\* useTimer: one second passes (here: in a set break)
Tick ==
  /\ Len(state.setFinishData) = 1
  /\ time < MaxTime
  /\ time' = time + 1
  /\ UNCHANGED <<state, last, visited>>

NextRecorded ==
  \/ RecordedStartMatch
  \/ \E side \in Sides : RecordedIncrementPoint(side)
  \/ RecordedUndo
  \/ RecordedStartNextSet
  \/ RecordedResetHistory
  \/ Tick

SpecRecorded == InitRecorded /\ [][NextRecorded]_vars

\* ------------------------------------ the same machine, a match played out
\* Sets are played to the end one after the other: the serving side wins
\* every rally, no point is scored in a set break, and the next set starts
\* with the names continueNextSet sends when the dialog's defaults are kept.
Falsy(x) == x = NULL \/ x = UNDEF \/ x = ""

continueNextSet(s) ==
  LET winnerTeam == IF s.setFinishData[1].winnerSide = "A"
                      THEN s.players.teamA ELSE s.players.teamB
      loserTeam == IF s.setFinishData[1].winnerSide = "A"
                     THEN s.players.teamB ELSE s.players.teamA
      nextServerName == IF Falsy(s.currentServer) THEN At(winnerTeam, 0)
                        ELSE s.currentServer
      nextReceiverName == IF Falsy(s.currentReceiver) THEN At(loserTeam, 0)
                          ELSE s.currentReceiver
  IN  <<nextServerName, nextReceiverName>>

LongStartMatch ==
  \E c \in StartChoices, sys \in ScoringSystems :
    /\ ValidStart(c)
    /\ ~isMatchStarted(state) \/ Len(state.setFinishData) = 1
    /\ StartMatchStep(c, sys)
    /\ UNCHANGED visited

LongIncrementPoint(side) ==
  /\ isMatchStarted(state)
  /\ Len(state.setFinishData) = 0
  /\ side = state.serverSide
  /\ isSetFinished(state, side, getMaxPoint(state.scoringSystem))
       => state.setsA + state.setsB < LongMatchSets
  /\ IncrementStep(side)
  /\ UNCHANGED visited

LongUndo ==
  /\ UndoStep
  /\ UNCHANGED visited

LongStartNextSet ==
  /\ Len(state.setFinishData) = 1
  /\ state' = CONTINUE_NEXT_SET(state, time, continueNextSet(state)[1],
                                continueNextSet(state)[2])
  /\ last' = Event("CONTINUE", NULL)
  /\ UNCHANGED <<time, visited>>

LongResetHistory ==
  /\ ResetStep
  /\ UNCHANGED visited

NextLongMatch ==
  \/ LongStartMatch
  \/ \E side \in Sides : LongIncrementPoint(side)
  \/ LongUndo
  \/ LongStartNextSet
  \/ LongResetHistory

SpecLongMatch == Init /\ [][NextLongMatch]_vars

\* ------------------------------- the same machine, any name the form holds
\* The start form keeps the server and receiver names picked earlier when
\* the serving side is changed afterwards, so the names it submits need not
\* belong to the rosters they are looked up in.  The opening rallies follow.
AnyNamesStartMatch ==
  \E c \in StartChoices, sys \in ScoringSystems :
    /\ Len(state.currentSetPointHistory) = 0
    /\ StartMatchStep(c, sys)
    /\ UNCHANGED visited

AnyNamesIncrementPoint(side) ==
  /\ isMatchStarted(state)
  /\ Len(state.currentSetPointHistory) < FreeRallies
  /\ IncrementStep(side)
  /\ UNCHANGED visited

AnyNamesUndo ==
  /\ UndoStep
  /\ UNCHANGED visited

NextAnyNames ==
  \/ AnyNamesStartMatch
  \/ \E side \in Sides : AnyNamesIncrementPoint(side)
  \/ AnyNamesUndo

SpecAnyNames == Init /\ [][NextAnyNames]_vars

\* --------------------------------- the same machine, a singles match to 15
\* The scorer's input is the one of Spec; the match is a singles match to 15,
\* whose point histories are the ones the statistics are computed over.
StatsStartMatch ==
  \E c \in StartChoices :
    /\ ValidStart(c)
    /\ c.players = SinglePlayers
    /\ Len(state.currentSetPointHistory) < RestartRallies
    /\ state.setsA + state.setsB = 0 \/ Len(state.setFinishData) = 1
    /\ StartMatchStep(c, 15)
    /\ UNCHANGED visited

NextStats ==
  \/ StatsStartMatch
  \/ \E side \in Sides : IncrementPoint(side)
  \/ Undo
  \/ StartNextSet
  \/ ResetHistory

SpecStats == Init /\ [][NextStats]_vars

\* ------------------------------------------------------------ statsUtils
\* running and longest streaks, with a longest streak that follows the
\* running one down
streakStepNoRunningMax(acc, prev, curr) ==
  IF curr.pointsA > prev.pointsA
    THEN [acc EXCEPT !.currentStreakA = acc.currentStreakA + 1,
                     !.currentStreakB = 0,
                     !.mostConsecutivePointsA = acc.currentStreakA + 1,
                     !.mostConsecutivePointsB = 0]
  ELSE IF curr.pointsB > prev.pointsB
    THEN [acc EXCEPT !.currentStreakB = acc.currentStreakB + 1,
                     !.currentStreakA = 0,
                     !.mostConsecutivePointsB = acc.currentStreakB + 1,
                     !.mostConsecutivePointsA = 0]
  ELSE acc

\* one pass of the loop body: the streaks
streakStep(acc, prev, curr) ==
  IF curr.pointsA > prev.pointsA
    THEN [acc EXCEPT !.currentStreakA = acc.currentStreakA + 1,
                     !.currentStreakB = 0,
                     !.mostConsecutivePointsA =
                        IF acc.currentStreakA + 1 > acc.mostConsecutivePointsA
                          THEN acc.currentStreakA + 1
                          ELSE acc.mostConsecutivePointsA]
  ELSE IF curr.pointsB > prev.pointsB
    THEN [acc EXCEPT !.currentStreakB = acc.currentStreakB + 1,
                     !.currentStreakA = 0,
                     !.mostConsecutivePointsB =
                        IF acc.currentStreakB + 1 > acc.mostConsecutivePointsB
                          THEN acc.currentStreakB + 1
                          ELSE acc.mostConsecutivePointsB]
  ELSE acc

\* one pass of the loop body: the game-point opportunities
gamePointStep(acc, curr, scoringSystem) ==
  LET gamePointThreshold == scoringSystem - 1
      deuceThreshold == scoringSystem
      standardA == curr.pointsA = gamePointThreshold
                     /\ curr.pointsB < gamePointThreshold
      standardB == curr.pointsB = gamePointThreshold
                     /\ curr.pointsA < gamePointThreshold
      deuceA == curr.pointsA >= deuceThreshold /\ curr.pointsA = curr.pointsB + 1
      deuceB == curr.pointsB >= deuceThreshold /\ curr.pointsB = curr.pointsA + 1
  IN  [acc EXCEPT
         !.gamePointsA = acc.gamePointsA + (IF standardA THEN 1 ELSE 0)
                                         + (IF deuceA THEN 1 ELSE 0),
         !.gamePointsB = acc.gamePointsB + (IF standardB THEN 1 ELSE 0)
                                         + (IF deuceB THEN 1 ELSE 0)]

\* the loop over adjacent snapshots, i counted from 0 as in the code; each
\* pass starts from the evaluated statistics of the pass before it
RECURSIVE scanHistory(_, _, _, _)
scanHistory(pointHistory, i, acc, scoringSystem) ==
  IF i < Len(pointHistory) /\ acc = acc
    THEN scanHistory(pointHistory, i + 1,
                     gamePointStep(streakStep(acc, At(pointHistory, i - 1),
                                              At(pointHistory, i)),
                                   At(pointHistory, i), scoringSystem),
                     scoringSystem)
    ELSE acc

calculateGameStats(game, scoringSystem) ==
  LET stats == [totalPointsWonA |-> game.pointsA,
                totalPointsWonB |-> game.pointsB,
                totalPointsPlayed |-> Len(game.pointHistory),
                mostConsecutivePointsA |-> 0,
                mostConsecutivePointsB |-> 0,
                gamePointsA |-> 0,
                gamePointsB |-> 0,
                currentStreakA |-> 0,
                currentStreakB |-> 0]
      r == scanHistory(game.pointHistory, 1, stats, scoringSystem)
  IN  [totalPointsWonA |-> r.totalPointsWonA,
       totalPointsWonB |-> r.totalPointsWonB,
       totalPointsPlayed |-> r.totalPointsPlayed,
       mostConsecutivePointsA |-> r.mostConsecutivePointsA,
       mostConsecutivePointsB |-> r.mostConsecutivePointsB,
       gamePointsA |-> r.gamePointsA,
       gamePointsB |-> r.gamePointsB]

\* a reduction that adds the streaks up like the other values
reduceStatsSumsStreaks(acc, stats) ==
  [totalPointsWonA |-> acc.totalPointsWonA + stats.totalPointsWonA,
   totalPointsWonB |-> acc.totalPointsWonB + stats.totalPointsWonB,
   totalPointsPlayed |-> acc.totalPointsPlayed + stats.totalPointsPlayed,
   gamePointsA |-> acc.gamePointsA + stats.gamePointsA,
   gamePointsB |-> acc.gamePointsB + stats.gamePointsB,
   mostConsecutivePointsA |->
     acc.mostConsecutivePointsA + stats.mostConsecutivePointsA,
   mostConsecutivePointsB |->
     acc.mostConsecutivePointsB + stats.mostConsecutivePointsB]

\* the reducer callback of calculateMatchStats
reduceStats(acc, stats) ==
  [totalPointsWonA |-> acc.totalPointsWonA + stats.totalPointsWonA,
   totalPointsWonB |-> acc.totalPointsWonB + stats.totalPointsWonB,
   totalPointsPlayed |-> acc.totalPointsPlayed + stats.totalPointsPlayed,
   gamePointsA |-> acc.gamePointsA + stats.gamePointsA,
   gamePointsB |-> acc.gamePointsB + stats.gamePointsB,
   mostConsecutivePointsA |->
     IF stats.mostConsecutivePointsA > acc.mostConsecutivePointsA
       THEN stats.mostConsecutivePointsA ELSE acc.mostConsecutivePointsA,
   mostConsecutivePointsB |->
     IF stats.mostConsecutivePointsB > acc.mostConsecutivePointsB
       THEN stats.mostConsecutivePointsB ELSE acc.mostConsecutivePointsB]

RECURSIVE reduceGames(_, _, _, _)
reduceGames(matchHistory, i, acc, scoringSystem) ==
  IF i < Len(matchHistory)
    THEN reduceGames(matchHistory, i + 1,
                     reduceStats(acc, calculateGameStats(At(matchHistory, i),
                                                         scoringSystem)),
                     scoringSystem)
    ELSE acc

calculateMatchStats(matchHistory, scoringSystem) ==
  reduceGames(matchHistory, 0,
              [totalPointsWonA |-> 0, totalPointsWonB |-> 0,
               totalPointsPlayed |-> 0,
               mostConsecutivePointsA |-> 0, mostConsecutivePointsB |-> 0,
               gamePointsA |-> 0, gamePointsB |-> 0],
              scoringSystem)

\* ------------------------------------------- host: the list for the modal
inProgressGame(s, t) ==
  IF isMatchStarted(s) /\ Len(s.currentSetPointHistory) > 0
    THEN <<[gameNumber |-> Len(s.matchHistory) + 1,
            pointsA |-> s.pointsA, pointsB |-> s.pointsB,
            winnerSide |-> NULL,
            duration |-> t - s.currentSetStartTime,
            pointHistory |-> Append(s.currentSetPointHistory, createSnapshot(s))]>>
    ELSE <<>>

historyForModal(s, t) == s.matchHistory \o inProgressGame(s, t)

\* ------------------------------------- README.md: the offset-baseline rule
\* The reducer listed in README.md keeps the rosters in the order they were
\* declared, fixes two offsets when a set starts and reads the receiver from
\* the roster by the parity of the serving side's score.
baselineOffsets(players, firstServe, firstServerName, opponentReceiverName) ==
  LET firstServerTeam == IF firstServe = "A" THEN players.teamA ELSE players.teamB
      opponentTeam == IF firstServe = "A" THEN players.teamB ELSE players.teamA
      sIdx == Max0(IndexOf(firstServerTeam, firstServerName))
      oIdx == Max0(IndexOf(opponentTeam, opponentReceiverName))
  IN  IF firstServe = "A"
        THEN [receiverOffsetA |-> oIdx, receiverOffsetB |-> sIdx]
        ELSE [receiverOffsetA |-> sIdx, receiverOffsetB |-> oIdx]

computeReceiver(players, receiverOffsetA, receiverOffsetB, servingSide, pointsAVal, pointsBVal) ==
  IF Len(players.teamA) = 1
    THEN IF servingSide = "A" THEN Coalesce(At(players.teamB, 0), NULL)
         ELSE Coalesce(At(players.teamA, 0), NULL)
  ELSE IF servingSide = "A"
    THEN Coalesce(At(players.teamB,
                     (receiverOffsetA + (pointsAVal % 2)) % Len(players.teamB)), NULL)
    ELSE Coalesce(At(players.teamA,
                     (receiverOffsetB + (pointsBVal % 2)) % Len(players.teamA)), NULL)

\* ================================================================ claims
HostCap(s) == getMaxPoint(s.scoringSystem)

\* the cap the rules give a target: 15 -> 21, 21 -> 30, 30 -> 30
CapOf(target) == CASE target = 15 -> 21 [] target = 21 -> 30 [] OTHER -> 30

CompletionPredicate(pA, pB, target) ==
  \/ (pA >= target /\ pA - pB >= 2)
  \/ (pB >= target /\ pB - pA >= 2)
  \/ pA = CapOf(target)
  \/ pB = CapOf(target)

SetsWon(s) == s.setsA + s.setsB

SetJustFinished(s) == Len(s.setFinishData) = 1

\* the call sets the slot to a new snapshot, appends it and raises one counter
CompletesSet(s, n) ==
  /\ Len(n.setFinishData) = 1
  /\ n.setFinishData # s.setFinishData
  /\ n.matchHistory = Append(s.matchHistory, n.setFinishData[1])
  /\ SetsWon(n) = SetsWon(s) + 1
  /\ n.setsA >= s.setsA /\ n.setsB >= s.setsB

\* the call records one point and leaves slot, history of sets and sets-won
OnlyRecordsPoint(s, n) ==
  /\ n.setFinishData = s.setFinishData
  /\ n.matchHistory = s.matchHistory
  /\ n.setsA = s.setsA /\ n.setsB = s.setsB
  /\ Len(n.currentSetPointHistory) = Len(s.currentSetPointHistory) + 1

\* C1: in every reachable state an IncrementPoint carrying the cap of the
\* state's target completes the set (slot set to a new GameSnapshot, appended
\* to the completed sets, one sets-won counter raised) exactly when the scores
\* after the increment satisfy target-and-margin-2 or cap; otherwise it only
\* records the point.
C1_CompletesIffPredicate ==
  \A side \in Sides :
    isMatchStarted(state) =>
      LET n == INCREMENT(state, side, HostCap(state), time)
      IN  IF CompletionPredicate(n.pointsA, n.pointsB, state.scoringSystem)
            THEN CompletesSet(state, n)
            ELSE OnlyRecordsPoint(state, n)

\* a set won at the cap with a margin of one
C1_Witness ==
  /\ last.type = "FINISH"
  /\ SetJustFinished(state)
  /\ state.pointsA = CapOf(state.scoringSystem)
  /\ state.pointsB = state.pointsA - 1

\* C2: after StartMatch no reachable state has a score above the cap of the
\* target.
C2_ScoreWithinCap ==
  isMatchStarted(state) =>
    /\ state.pointsA <= CapOf(state.scoringSystem)
    /\ state.pointsB <= CapOf(state.scoringSystem)

\* C3: once a set is completed, no event before the next StartNextSet
\* changes sets-won or appends another GameSnapshot.
C3_OneCompletionPerSet ==
  [][(SetJustFinished(state) /\ SetJustFinished(state')) =>
       /\ state'.setsA = state.setsA
       /\ state'.setsB = state.setsB
       /\ Len(state'.matchHistory) <= Len(state.matchHistory)]_vars

\* C4: Undo after a non-completing IncrementPoint gives back the state the
\* point was scored in, on every field of the match state.
C4_UndoRoundTrip ==
  \A side \in Sides :
    (isMatchStarted(state) /\ ~isSetFinished(state, side, HostCap(state)))
      => UNDO(INCREMENT(state, side, HostCap(state), time)) = state

\* an Undo has taken a point back in a doubles set, after a serve change
C4_Witness ==
  /\ last.type = "UNDO"
  /\ Len(state.players.teamA) = 2
  /\ state.serveIndex > 0
  /\ state.pointsA + state.pointsB > 0

\* C5: Undo on a state whose current-set history is empty returns the same
\* state, the not-started state included.
C5_UndoEmptyNoOp ==
  [][(UndoStep /\ Len(state.currentSetPointHistory) = 0) => state' = state]_vars

\* an Undo was dispatched on an empty history with points on the board
C5_Witness ==
  /\ last.type = "UNDO_EMPTY"
  /\ state.pointsA + state.pointsB > 0

\* C6: right after a completing IncrementPoint and right after StartNextSet,
\* Undo leaves the whole state unchanged.
C6_UndoStopsAtSetBoundary ==
  last.type \in Boundary => UNDO(state) = state

\* an Undo was dispatched right after a set completion
C6_Witness ==
  /\ last.type = "UNDO_EMPTY"
  /\ last.afterBoundary
  /\ SetJustFinished(state)
  /\ SetsWon(state) = 1
  /\ Len(state.matchHistory) = 1

\* C7: the state after an Undo that changes the state equals a state the
\* machine was in earlier in the run.
C7_UndoReturnsToVisited ==
  [][(RecordedUndo /\ state' # state) => state' \in visited]_vars

\* C7 as amended: the state after an Undo that changes the state equals an
\* earlier state of the run in every field but the completed-sets history,
\* which Undo leaves as it is (an intervening ResetHistory has emptied it).
C7_UndoReturnsToVisitedButHistory ==
  [][(RecordedUndo /\ state' # state) =>
       /\ state'.matchHistory = state.matchHistory
       /\ \E v \in visited :
            [v EXCEPT !.matchHistory = state.matchHistory] = state']_vars

\* an Undo took a point back after ResetHistory had emptied the sets played
C7_Witness ==
  /\ last.type = "UNDO"
  /\ SetsWon(state) = 1
  /\ Len(state.matchHistory) = 0
  /\ ~SetJustFinished(state)

\* C8: the current receiver is never the current server.
C8_ReceiverNeverServer ==
  isMatchStarted(state) => state.currentReceiver # state.currentServer

IsDoubles(s) == Len(s.players.teamA) = 2

\* side A's list is [left, right], side B's is [right, left]
RightOf(s, side) == IF side = "A" THEN s.players.teamA[2] ELSE s.players.teamB[1]

LeftOf(s, side) == IF side = "A" THEN s.players.teamA[1] ELSE s.players.teamB[2]

ScoreOf(s, side) == IF side = "A" THEN s.pointsA ELSE s.pointsB

SlotByParity(s, side, score) ==
  IF score % 2 = 0 THEN RightOf(s, side) ELSE LeftOf(s, side)

\* C9: after a non-completing IncrementPoint in doubles the receiver is the
\* player of the non-serving side in the right court when the serving side's
\* new score is even, in the left court when it is odd.
C9_ReceiverByParity ==
  (last.type = "POINT" /\ IsDoubles(state)) =>
    state.currentReceiver =
      SlotByParity(state, OtherSide(state.serverSide),
                   ScoreOf(state, state.serverSide))

\* side B serves on an odd score after a rally
C9_Witness ==
  /\ last.type = "POINT"
  /\ IsDoubles(state)
  /\ state.serverSide = "B"
  /\ state.pointsB % 2 = 1
  /\ state.pointsB >= 3

SideOfPlayer(s, name) == IF Includes(s.players.teamA, name) THEN "A" ELSE "B"

\* C10: in every in-progress doubles state of the first set the server
\* stands in the right court of its side when that side's score is even and
\* in the left court when it is odd.
C10_ServerByParity ==
  (isMatchStarted(state) /\ IsDoubles(state) /\ SetsWon(state) = 0
     /\ ~SetJustFinished(state)) =>
    LET sd == SideOfPlayer(state, state.currentServer)
    IN  state.currentServer = SlotByParity(state, sd, ScoreOf(state, sd))

\* the serving pair has swapped courts: the server serves from the left
C10_Witness ==
  /\ last.type = "POINT"
  /\ IsDoubles(state)
  /\ SetsWon(state) = 0
  /\ ~SetJustFinished(state)
  /\ state.serverSide = "A"
  /\ state.pointsA % 2 = 1
  /\ state.currentServer = LeftOf(state, "A")

\* the other player of the pair the start form entered
PartnerOf(name) ==
  CASE name = "a1" -> "a2" [] name = "a2" -> "a1"
    [] name = "b1" -> "b2" [] name = "b2" -> "b1"

\* the server and the receiver stand in the right courts, partners on the left
StartOnTheRight(s) ==
  /\ RightOf(s, s.serverSide) = s.currentServer
  /\ LeftOf(s, s.serverSide) = PartnerOf(s.currentServer)
  /\ RightOf(s, OtherSide(s.serverSide)) = s.currentReceiver
  /\ LeftOf(s, OtherSide(s.serverSide)) = PartnerOf(s.currentReceiver)

\* C11: after StartMatch in doubles the positions at 0-0 are: serving side
\* [partner of the server left, server right], receiving side [receiver
\* right, partner of the receiver left], for either first-serving side and
\* either choice of players.
C11_StartPositions ==
  (last.type = "START" /\ IsDoubles(state)) => StartOnTheRight(state)

\* side B serves first, its second player to the second player of side A
C11_Witness ==
  /\ last.type = "START"
  /\ IsDoubles(state)
  /\ state.serverSide = "B"
  /\ state.currentServer = "b2"
  /\ state.currentReceiver = "a2"
  /\ state.players = [teamA |-> <<"a1", "a2">>, teamB |-> <<"b2", "b1">>]

\* C12: after StartNextSet in doubles, with the chosen server on one side and
\* the chosen receiver on the other, the positions at 0-0 put the chosen
\* server and the chosen receiver in the right courts and their partners in
\* the left courts.
C12_NextSetPositions ==
  (last.type = "CONTINUE" /\ IsDoubles(state)) => StartOnTheRight(state)

\* the serve order a state holds for its server and receiver
WellFormedOrder(s) ==
  IF IsDoubles(s)
    THEN /\ Len(s.serveOrder) = 4
         /\ Cardinality(SeqToSet(s.serveOrder)) = 4
         /\ SeqToSet(s.serveOrder) = {"a1", "a2", "b1", "b2"}
         /\ s.serveOrder = <<s.currentServer, PartnerOf(s.currentReceiver),
                             PartnerOf(s.currentServer), s.currentReceiver>>
    ELSE /\ Len(s.serveOrder) = 2
         /\ s.serveOrder = <<s.currentServer, s.currentReceiver>>

\* C13: the serve order built by StartMatch and by every StartNextSet (server
\* of one side, receiver of the other) is, in doubles, of length 4 with each
\* of the four players once, [server, partner of receiver, partner of
\* server, receiver]; in singles it is [server, receiver].
C13_ServeOrderBuilt ==
  /\ last.type \in {"START", "CONTINUE"} => WellFormedOrder(state)
  /\ (isMatchStarted(state) /\ SetJustFinished(state)) =>
       \A p \in NextSetChoices(state) :
         WellFormedOrder(CONTINUE_NEXT_SET(state, time, p[1], p[2]))

\* a second set of doubles started with side B's second player serving
C13_Witness ==
  /\ last.type = "CONTINUE"
  /\ IsDoubles(state)
  /\ state.serveOrder = <<"b2", "a1", "b1", "a2">>

\* C14: a non-completing IncrementPoint by the side that is not serving
\* advances the rotation index by one modulo the length of the serve order
\* and makes the player at the new index the server; by the serving side it
\* leaves index and server unchanged.  The index is always within the order.
C14_RotationAdvance ==
  isMatchStarted(state) =>
    /\ 0 <= state.serveIndex /\ state.serveIndex < Len(state.serveOrder)
    /\ \A side \in Sides :
         ~isSetFinished(state, side, HostCap(state)) =>
           LET n == INCREMENT(state, side, HostCap(state), time)
           IN  /\ 0 <= n.serveIndex /\ n.serveIndex < Len(n.serveOrder)
               /\ IF side # state.serverSide
                    THEN /\ n.serveIndex =
                              (state.serveIndex + 1) % Len(state.serveOrder)
                         /\ n.currentServer = At(n.serveOrder, n.serveIndex)
                    ELSE /\ n.serveIndex = state.serveIndex
                         /\ n.currentServer = state.currentServer

\* the index has wrapped around: the first server of a doubles set serves
\* again after three other serve changes
C14_Witness ==
  /\ last.type = "POINT"
  /\ IsDoubles(state)
  /\ state.serveIndex = 0
  /\ Len(state.currentSetPointHistory) >= 4
  /\ state.currentSetPointHistory[Len(state.currentSetPointHistory)].serveIndex = 3

\* C15: in every state after StartMatch, the set-just-finished state
\* included, the serving side recorded in the state is the side whose
\* position list contains the current server.
C15_ServerOnServingSide ==
  isMatchStarted(state) =>
    state.serverSide = SideOfPlayer(state, state.currentServer)

IsSingles(s) == Len(s.players.teamA) = 1 /\ Len(s.players.teamB) = 1

SolePlayer(s, side) == IF side = "A" THEN s.players.teamA[1] ELSE s.players.teamB[1]

\* the server is the sole player of the serving side, the receiver the sole
\* player of the other side
SinglesServeOK(s) ==
  /\ s.serverSide \in Sides
  /\ s.currentServer = SolePlayer(s, s.serverSide)
  /\ s.currentReceiver = SolePlayer(s, OtherSide(s.serverSide))

OnlyAScored(s) ==
  /\ IsSingles(s)
  /\ s.serveOrder = <<"a1", "b1">>
  /\ SetsWon(s) = 0
  /\ s.pointsB = 0
  /\ Len(s.currentSetPointHistory) = s.pointsA

\* C17: from StartMatch in singles with target T and side A serving first,
\* T consecutive IncrementPoint(A) leave the set in progress after each of
\* the first T-1 and complete it on the T-th: winner A, score T-0, sets 1-0,
\* one GameSnapshot in the completed sets.
C17_StraightSet ==
  OnlyAScored(state) =>
    /\ ~SetJustFinished(state)
    /\ state.pointsA < state.scoringSystem
    /\ LET n == INCREMENT(state, "A", HostCap(state), time)
       IN  IF state.pointsA + 1 < state.scoringSystem
             THEN ~SetJustFinished(n) /\ SetsWon(n) = 0 /\ n.matchHistory = <<>>
             ELSE /\ SetJustFinished(n)
                  /\ n.setFinishData[1].winnerSide = "A"
                  /\ n.pointsA = state.scoringSystem /\ n.pointsB = 0
                  /\ n.setFinishData[1].pointsA = state.scoringSystem
                  /\ n.setFinishData[1].pointsB = 0
                  /\ n.setsA = 1 /\ n.setsB = 0
                  /\ n.matchHistory = <<n.setFinishData[1]>>

\* the scenario: target 21, set completed 21-0 by side A
C17_Witness ==
  /\ last.type = "FINISH"
  /\ IsSingles(state)
  /\ state.scoringSystem = 21
  /\ state.serveOrder = <<"a1", "b1">>
  /\ state.pointsA = 21 /\ state.pointsB = 0
  /\ state.setsA = 1 /\ state.setsB = 0
  /\ Len(state.matchHistory) = 1
  /\ Len(state.setFinishData[1].pointHistory) = 22

\* C18: when an IncrementPoint completes a set whose last two points the
\* winning side won, the default next server left in the state is the
\* current server of the state the completing point was scored in.
C18_DefaultServerStays ==
  isMatchStarted(state) =>
    \A side \in Sides :
      isSetFinished(state, side, HostCap(state)) =>
        LET n == INCREMENT(state, side, HostCap(state), time)
            w == n.setFinishData[1].winnerSide
        IN  n.lastTwoPointWinners = <<w, w>> =>
              n.currentServer = state.currentServer

\* the roster of a side as the state holds it
RosterOf(s, side) == IF side = "A" THEN s.players.teamA ELSE s.players.teamB

\* C19: after every set completion, in singles and doubles, the default next
\* server stored in the state is a member of the winning side's roster.
C19_DefaultServerOnWinningSide ==
  isMatchStarted(state) =>
    \A side \in Sides :
      isSetFinished(state, side, HostCap(state)) =>
        LET n == INCREMENT(state, side, HostCap(state), time)
        IN  Includes(RosterOf(n, n.setFinishData[1].winnerSide), n.currentServer)

\* a doubles set won on the other side's serve, the last two points split
C19_Witness ==
  /\ last.type = "FINISH"
  /\ IsDoubles(state)
  /\ state.setFinishData[1].winnerSide = "B"
  /\ state.serverSide = "A"
  /\ state.lastTwoPointWinners = <<"A", "B">>
  /\ Includes(state.players.teamB, state.currentServer)

\* C20: after every set completion, whichever side won, in singles and
\* doubles, the default next receiver stored in the state is the first entry
\* of the losing side's roster, a defined player of the losing side.
C20_DefaultReceiverFirstOfLosers ==
  last.type = "FINISH" =>
    LET loser == OtherSide(state.setFinishData[1].winnerSide)
    IN  /\ state.currentReceiver = RosterOf(state, loser)[1]
        /\ Includes(RosterOf(state, loser), state.currentReceiver)

\* C21: StartNextSet sets both scores and the rotation index to 0, server and
\* receiver to the chosen names, the set start time to the elapsed time it is
\* given, empties the current-set history and the last-two-winners list and
\* nulls the set-finished slot; sets-won, the completed sets and the target
\* stay as they are.
C21_NextSetFrame ==
  (isMatchStarted(state) /\ SetJustFinished(state)) =>
    \A p \in NextSetChoices(state), t \in 0..MaxTime :
      LET n == CONTINUE_NEXT_SET(state, t, p[1], p[2])
      IN  /\ n.pointsA = 0 /\ n.pointsB = 0
          /\ n.serveIndex = 0
          /\ n.currentServer = p[1] /\ n.currentReceiver = p[2]
          /\ n.currentSetStartTime = t
          /\ n.currentSetPointHistory = <<>>
          /\ n.lastTwoPointWinners = <<>>
          /\ n.setFinishData = <<>>
          /\ n.setsA = state.setsA /\ n.setsB = state.setsB
          /\ n.matchHistory = state.matchHistory
          /\ n.scoringSystem = state.scoringSystem

\* a second set started after side B won the first to 21
C21_Witness ==
  /\ last.type = "CONTINUE"
  /\ state.setsA = 0 /\ state.setsB = 1
  /\ Len(state.matchHistory) = 1
  /\ state.matchHistory[1].pointsB >= 21
  /\ state.scoringSystem = 21
  /\ state.pointsA = 0 /\ state.pointsB = 0
  /\ state.lastTwoPointWinners = <<>>

\* C22: ResetHistory from any reachable state empties the completed sets and
\* leaves every other field unchanged.
C22_ResetFrame ==
  /\ RESET_HISTORY(state).matchHistory = <<>>
  /\ RESET_HISTORY(state) = [state EXCEPT !.matchHistory = <<>>]
  /\ [RESET_HISTORY(state) EXCEPT !.matchHistory = state.matchHistory] = state

\* the completed sets were emptied in the second set, a rally played
C22_Witness ==
  /\ SetsWon(state) = 1
  /\ state.matchHistory = <<>>
  /\ ~SetJustFinished(state)
  /\ Len(state.currentSetPointHistory) = 1

\* C23: IncrementPoint, Undo and StartNextSet only ever extend the completed
\* sets at the end: a completing IncrementPoint appends exactly one entry,
\* whose score is the final score and whose winner is the side whose sets-won
\* counter was raised; every other such transition leaves the list as it is.
C23_HistoryAppendOnly ==
  LET old == state.matchHistory
      k == Len(state.matchHistory)
  IN  /\ UNDO(state).matchHistory = old
      /\ SetJustFinished(state) =>
            \A p \in NextSetChoices(state) :
              CONTINUE_NEXT_SET(state, time, p[1], p[2]).matchHistory = old
      /\ isMatchStarted(state) =>
            \A side \in Sides :
              LET n == INCREMENT(state, side, HostCap(state), time)
              IN  IF SetsWon(n) # SetsWon(state) \/ n.matchHistory # old
                    THEN /\ Len(n.matchHistory) = k + 1
                         /\ SubSeq(n.matchHistory, 1, k) = old
                         /\ n.matchHistory[k + 1].pointsA = n.pointsA
                         /\ n.matchHistory[k + 1].pointsB = n.pointsB
                         /\ n.matchHistory[k + 1].winnerSide = "A"
                               <=> (n.setsA = state.setsA + 1 /\ n.setsB = state.setsB)
                         /\ n.matchHistory[k + 1].winnerSide = "B"
                               <=> (n.setsB = state.setsB + 1 /\ n.setsA = state.setsA)
                         /\ n.matchHistory[k + 1].winnerSide \in Sides
                    ELSE TRUE

\* a second entry has been appended behind the first, one set to each side
C23_Witness ==
  /\ last.type = "FINISH"
  /\ Len(state.matchHistory) = 2
  /\ state.matchHistory[1].winnerSide = "A"
  /\ state.matchHistory[2].winnerSide = "B"
  /\ state.setsA = 1 /\ state.setsB = 1
  /\ state.matchHistory[2].pointsB = state.pointsB

\* C24: within one match the GameSnapshots of successive completions carry
\* gameNumber 1, 2, 3, ... in the order the sets were completed, whatever
\* Undo, StartNextSet and ResetHistory events come between them: the snapshot
\* of the n-th set completed since StartMatch has gameNumber n.
C24_GameNumberSequential ==
  (last.type = "FINISH" /\ SetJustFinished(state)) =>
    state.setFinishData[1].gameNumber = SetsWon(state)

\* C25: in every reachable state the sets won by each side are between 0
\* and 5, however many sets are played.
C25_SetsWonAtMostFive ==
  /\ state.setsA \in 0..5
  /\ state.setsB \in 0..5

\* the payload with a name that is not in the roster it is looked up in
\* replaced by the first player of that roster
WithFallback(c) ==
  LET mine == IF c.firstServe = "A" THEN c.players.teamA ELSE c.players.teamB
      theirs == IF c.firstServe = "A" THEN c.players.teamB ELSE c.players.teamA
  IN  [c EXCEPT
         !.server = IF Includes(mine, c.server) THEN c.server ELSE At(mine, 0),
         !.receiver = IF Includes(theirs, c.receiver) THEN c.receiver
                      ELSE At(theirs, 0)]

StartedWith(c, sys) ==
  START_MATCH(c.players, c.firstServe, c.server, c.receiver, sys, 0)

\* C26: a doubles StartMatch whose first-server or first-receiver name is not
\* in the roster it is looked up in leaves the machine in the state that
\* StartMatch with the first player of that roster in its place produces
\* (serve order, rotation index, server, receiver, positions).
C26_AbsentNameFallsBack ==
  \A c \in StartChoices, sys \in ScoringSystems :
    (last.type = "START" /\ IsDoubles(state) /\ state = StartedWith(c, sys))
      => state = StartedWith(WithFallback(c), sys)

\* C27: StartMatch is a full reset from whatever state it is dispatched in:
\* the state it leaves is the one its payload alone determines, with scores
\* and sets 0, both histories empty, the set-finished slot null and the
\* last-two-winners list empty.
C27_StartMatchResets ==
  last.type = "START" =>
    /\ state.pointsA = 0 /\ state.pointsB = 0
    /\ state.setsA = 0 /\ state.setsB = 0
    /\ state.currentSetPointHistory = <<>>
    /\ state.matchHistory = <<>>
    /\ state.setFinishData = <<>>
    /\ state.lastTwoPointWinners = <<>>
    /\ \E c \in StartChoices, sys \in ScoringSystems :
         ValidStart(c) /\ state = StartedWith(c, sys)

\* a match started anew in a set break
C27_Witness ==
  /\ last.type = "START"
  /\ last.afterBoundary
  /\ IsDoubles(state)

\* C28: for every GameSnapshot the machine has produced and for the
\* in-progress snapshot the host assembles, the per-set total points played
\* of the Stats Engine is the length of the point history minus 1 and equals
\* pointsA + pointsB of the set.
C28_TotalPointsPlayed ==
  \A i \in 1..Len(historyForModal(state, time)) :
    LET game == historyForModal(state, time)[i]
        stats == calculateGameStats(game, state.scoringSystem)
    IN  /\ stats.totalPointsPlayed = Len(game.pointHistory) - 1
        /\ stats.totalPointsPlayed = game.pointsA + game.pointsB

\* the per-set statistics of a list of sets, one after the other
PerSetStats(games, scoringSystem) ==
  [i \in 1..Len(games) |-> calculateGameStats(games[i], scoringSystem)]

RECURSIVE SumOf(_, _)
SumOf(values, n) == IF n = 0 THEN 0 ELSE values[n] + SumOf(values, n - 1)

MaxOf(values) ==
  IF Len(values) = 0 THEN 0
  ELSE CHOOSE m \in SeqToSet(values) : \A v \in SeqToSet(values) : v <= m

\* C29: over the list of sets given to the match statistics, points won and
\* game-point counts per side are the sums of the per-set values and the
\* longest streak per side is the maximum of the per-set longest streaks;
\* for the empty list every value is 0.
C29_MatchStatsAggregate ==
  LET games == historyForModal(state, time)
      n == Len(games)
      per == PerSetStats(games, state.scoringSystem)
      match == calculateMatchStats(games, state.scoringSystem)
      none == calculateMatchStats(<<>>, state.scoringSystem)
  IN  /\ match.totalPointsWonA = SumOf([i \in 1..n |-> per[i].totalPointsWonA], n)
      /\ match.totalPointsWonB = SumOf([i \in 1..n |-> per[i].totalPointsWonB], n)
      /\ match.gamePointsA = SumOf([i \in 1..n |-> per[i].gamePointsA], n)
      /\ match.gamePointsB = SumOf([i \in 1..n |-> per[i].gamePointsB], n)
      /\ match.mostConsecutivePointsA
            = MaxOf([i \in 1..n |-> per[i].mostConsecutivePointsA])
      /\ match.mostConsecutivePointsB
            = MaxOf([i \in 1..n |-> per[i].mostConsecutivePointsB])
      /\ none = [totalPointsWonA |-> 0, totalPointsWonB |-> 0,
                 totalPointsPlayed |-> 0,
                 mostConsecutivePointsA |-> 0, mostConsecutivePointsB |-> 0,
                 gamePointsA |-> 0, gamePointsB |-> 0]

\* a completed set and a set in progress, side A with a streak and a game
\* point in the first and a point in the second
C29_Witness ==
  /\ Len(state.matchHistory) = 1
  /\ Len(historyForModal(state, time)) = 2
  /\ PerSetStats(historyForModal(state, time), state.scoringSystem)[1]
       .mostConsecutivePointsA >= 2
  /\ PerSetStats(historyForModal(state, time), state.scoringSystem)[2]
       .mostConsecutivePointsA = 1
  /\ calculateMatchStats(historyForModal(state, time), state.scoringSystem)
       .gamePointsA >= 1
  /\ calculateMatchStats(historyForModal(state, time), state.scoringSystem)
       .gamePointsB >= 1

\* the statistics of the first k snapshots of a set
PrefixStats(game, k, scoringSystem) ==
  calculateGameStats([game EXCEPT !.pointHistory = SubSeq(game.pointHistory, 1, k)],
                     scoringSystem)

\* C30: for every point history the machine has produced and every prefix of
\* it, the longest streak of each side on the prefix is at most the longest
\* streak on the whole history, and at most the points that side has won.
C30_StreakMonotone ==
  \A i \in 1..Len(historyForModal(state, time)) :
    LET game == historyForModal(state, time)[i]
        h == game.pointHistory
        full == calculateGameStats(game, state.scoringSystem)
    IN  /\ full.mostConsecutivePointsA <= game.pointsA
        /\ full.mostConsecutivePointsB <= game.pointsB
        /\ \A k \in 1..Len(h) :
             LET part == PrefixStats(game, k, state.scoringSystem)
             IN  /\ part.mostConsecutivePointsA <= full.mostConsecutivePointsA
                 /\ part.mostConsecutivePointsB <= full.mostConsecutivePointsB
                 /\ part.mostConsecutivePointsA <= h[k].pointsA
                 /\ part.mostConsecutivePointsB <= h[k].pointsB

\* a completed set in which side A's longest streak was followed by points
\* of side B
C30_Witness ==
  /\ Len(state.matchHistory) >= 1
  /\ LET game == state.matchHistory[1]
         full == calculateGameStats(game, state.scoringSystem)
     IN  /\ full.mostConsecutivePointsA >= 2
         /\ full.mostConsecutivePointsB >= 2
         /\ game.winnerSide = "B"
         /\ PrefixStats(game, 4, state.scoringSystem).mostConsecutivePointsA
               = full.mostConsecutivePointsA

\* the receiver the offset-baseline rule assigns in a doubles state of the
\* first set: the rosters as declared, the offsets of the StartMatch whose
\* server and receiver open and close the serve order
OffsetRuleReceiver(s) ==
  LET firstServerName == At(s.serveOrder, 0)
      opponentReceiverName == At(s.serveOrder, 3)
      firstServe == IF Includes(DoublePlayers.teamA, firstServerName)
                      THEN "A" ELSE "B"
      offsets == baselineOffsets(DoublePlayers, firstServe, firstServerName,
                                 opponentReceiverName)
  IN  computeReceiver(DoublePlayers, offsets.receiverOffsetA,
                      offsets.receiverOffsetB, s.serverSide, s.pointsA, s.pointsB)

\* a doubles state of the first set reached by a non-completing IncrementPoint
FirstSetDoublesAfterPoint ==
  /\ isMatchStarted(state) /\ IsDoubles(state)
  /\ SetsWon(state) = 0
  /\ last.type = "POINT"

RulesDisagree ==
  FirstSetDoublesAfterPoint /\ state.currentReceiver # OffsetRuleReceiver(state)

StartPositions(s) ==
  LET firstServerName == At(s.serveOrder, 0)
      opponentReceiverName == At(s.serveOrder, 3)
      firstServe == IF Includes(DoublePlayers.teamA, firstServerName)
                      THEN "A" ELSE "B"
  IN  getTeamPositions(firstServe, DoublePlayers, firstServerName,
                       opponentReceiverName, 0, 0)

\* C31: the offset-baseline rule of README.md and the position rule of the
\* reducer assign different receivers after the same StartMatch and
\* IncrementPoint events in some reachable doubles state: in the first set
\* they differ exactly in the states in which the receiving pair no longer
\* stands as it stood when the set started.
C31_RulesDisagreeWhenSwapped ==
  FirstSetDoublesAfterPoint =>
    (RulesDisagree
       <=> (RosterOf(state, OtherSide(state.serverSide))
              # RosterOf([players |-> StartPositions(state)],
                         OtherSide(state.serverSide))))

\* side A served and won a rally, side B won the next: the reducer has a1
\* receive, the offset rule a2
C31_Witness ==
  /\ RulesDisagree
  /\ state.pointsA = 1 /\ state.pointsB = 1
  /\ state.serverSide = "B"
  /\ state.currentReceiver = "a1"
  /\ OffsetRuleReceiver(state) = "a2"

\* C32: a non-completing IncrementPoint in doubles leaves the slot order of
\* the side that lost the point exactly as it was before the call.
C32_LosingSideKeepsOrder ==
  (isMatchStarted(state) /\ IsDoubles(state)) =>
    \A side \in Sides :
      ~isSetFinished(state, side, HostCap(state)) =>
        RosterOf(INCREMENT(state, side, HostCap(state), time), OtherSide(side))
          = RosterOf(state, OtherSide(side))

\* side B has won a rally on its own serve and side A, which lost it, stands
\* as before, not in the order its roster was declared in
C32_Witness ==
  /\ IsDoubles(state)
  /\ last.type = "POINT" /\ last.side = "B"
  /\ Len(state.currentSetPointHistory) >= 2
  /\ state.players.teamA = <<"a2", "a1">>
  /\ state.players.teamA
       = state.currentSetPointHistory[Len(state.currentSetPointHistory)].players.teamA
  /\ state.players.teamB
       # state.currentSetPointHistory[Len(state.currentSetPointHistory)].players.teamB

Turned(pair) == <<pair[2], pair[1]>>

\* C33: in every in-progress doubles state of any set a non-completing
\* IncrementPoint swaps the two players of the scoring side if and only if
\* that side was already serving; when the receiving side wins the rally
\* both sides' slot orders stay as they were.
C33_CourtChange ==
  (isMatchStarted(state) /\ IsDoubles(state) /\ ~SetJustFinished(state)) =>
    \A side \in Sides :
      ~isSetFinished(state, side, HostCap(state)) =>
        LET n == INCREMENT(state, side, HostCap(state), time)
        IN  IF side = state.serverSide
              THEN /\ RosterOf(n, side) = Turned(RosterOf(state, side))
                   /\ RosterOf(n, OtherSide(side)) = RosterOf(state, OtherSide(side))
              ELSE n.players = state.players

TeamOf(s, side) == IF side = "A" THEN s.players.teamA ELSE s.players.teamB

\* C34: rally scoring.  After every IncrementPoint(side) that does not
\* complete a set, from any state of a started match (the state right after
\* a set completion included), the serving side is the scoring side and the
\* current server is a player of the scoring side.
C34_RallyScoring ==
  isMatchStarted(state) =>
    \A side \in Sides :
      ~isSetFinished(state, side, HostCap(state)) =>
        LET n == INCREMENT(state, side, HostCap(state), time)
        IN  n.serverSide = side /\ Includes(TeamOf(n, side), n.currentServer)

OnePointApart(p, q) ==
  \/ q.pointsA = p.pointsA + 1 /\ q.pointsB = p.pointsB
  \/ q.pointsA = p.pointsA /\ q.pointsB = p.pointsB + 1

CompleteRecord(game) ==
  LET h == game.pointHistory
  IN  /\ Len(h) = game.pointsA + game.pointsB + 1
      /\ h[1].pointsA = 0 /\ h[1].pointsB = 0
      /\ h[Len(h)].pointsA = game.pointsA /\ h[Len(h)].pointsB = game.pointsB
      /\ \A k \in 1..(Len(h) - 1) : OnePointApart(h[k], h[k + 1])

\* C35: the point history of every set record produced by a set completion
\* has pointsA + pointsB + 1 snapshots, starts at 0-0, ends with the snapshot
\* before the winning point followed by the final score, and any two
\* neighbouring snapshots are one point apart on one side, whatever the
\* interleaving of IncrementPoint and Undo.
C35_CompleteRecords ==
  \A i \in 1..Len(state.matchHistory) : CompleteRecord(state.matchHistory[i])

CountOf(seq, x) == Cardinality({k \in 1..Len(seq) : seq[k] = x})

InProgress(s) == isMatchStarted(s) /\ ~SetJustFinished(s)

\* C36: in every in-progress state reached by IncrementPoint and Undo since
\* the last StartMatch or StartNextSet, each side's score is the number of
\* its IncrementPoint events that have not been undone, the current-set point
\* history holds pointsA + pointsB snapshots, and no score is negative.
C36_ScoresCountIncrements ==
  InProgress(state) =>
    /\ state.pointsA = CountOf(last.pending, "A")
    /\ state.pointsB = CountOf(last.pending, "B")
    /\ Len(state.currentSetPointHistory) = state.pointsA + state.pointsB
    /\ state.pointsA >= 0 /\ state.pointsB >= 0

C36_Witness ==
  /\ InProgress(state)
  /\ last.type = "UNDO"
  /\ last.pending = <<"A", "B", "B">>
  /\ state.pointsA = 1 /\ state.pointsB = 2

\* C37: whenever IncrementPoint(side) completes a set, from any state of a
\* started match (the state right after a set completion included), the
\* recorded winner is the side that scored the point and the winner's final
\* score is strictly greater than the loser's.
C37_ScorerWinsSet ==
  isMatchStarted(state) =>
    \A side \in Sides :
      isSetFinished(state, side, HostCap(state)) =>
        LET game == INCREMENT(state, side, HostCap(state), time).setFinishData[1]
        IN  /\ game.winnerSide = side
            /\ IF side = "A" THEN game.pointsA > game.pointsB
                              ELSE game.pointsB > game.pointsA

\* the IncrementPoint events of the current set still standing
Played(s) == s.pointsA + s.pointsB

\* C38: every set terminates.  A set started at 0-0 by StartMatch or
\* StartNextSet is completed by the (2 * cap - 1)-th IncrementPoint at the
\* latest, for the pairs 15/21, 21/30 and 30/30 and any order of scoring
\* sides: a set still in progress has had at most 2 * cap - 2 points, every
\* IncrementPoint either completes it or adds one point, and at 2 * cap - 2
\* points either side's next point completes it.
C38_SetTerminates ==
  InProgress(state) =>
    LET cap == CapOf(state.scoringSystem)
    IN  /\ Len(last.pending) = Played(state)
        /\ Played(state) <= 2 * cap - 2
        /\ \A side \in Sides :
             LET n == INCREMENT(state, side, HostCap(state), time)
             IN  IF isSetFinished(state, side, HostCap(state))
                   THEN SetJustFinished(n)
                   ELSE InProgress(n) /\ Played(n) = Played(state) + 1
        /\ Played(state) = 2 * cap - 2 =>
             \A side \in Sides : isSetFinished(state, side, HostCap(state))

C38_Witness ==
  /\ SetJustFinished(state)
  /\ last.type = "FINISH"
  /\ state.scoringSystem = 15
  /\ Played(state) = 2 * CapOf(15) - 1
  /\ Len(state.setFinishData[1].pointHistory) = 2 * CapOf(15)

\* C39: in every in-progress state reached from a valid StartMatch by
\* IncrementPoint, Undo and StartNextSet, the current server is the entry of
\* the serve order at the rotation index and the next server shown is the
\* entry at (index + 1) mod the length of the order.
C39_ServerFollowsIndex ==
  InProgress(state) =>
    /\ state.currentServer = At(state.serveOrder, state.serveIndex)
    /\ state.nextServer
         = At(state.serveOrder, (state.serveIndex + 1) % Len(state.serveOrder))

C39_Witness ==
  /\ InProgress(state)
  /\ IsDoubles(state)
  /\ SetsWon(state) = 1
  /\ last.type = "POINT"
  /\ state.serveIndex = 1
  /\ state.currentServer = At(state.serveOrder, 1)

\* side X holds a game point at a snapshot: the set is undecided there and
\* X's next point would complete it
HoldsGamePoint(snap, side, target) ==
  /\ ~CompletionPredicate(snap.pointsA, snap.pointsB, target)
  /\ IF side = "A"
       THEN CompletionPredicate(snap.pointsA + 1, snap.pointsB, target)
       ELSE CompletionPredicate(snap.pointsA, snap.pointsB + 1, target)

\* the post-point snapshots of a set record, the final one left out
GamePointsHeld(game, side, target) ==
  Cardinality({k \in 2..(Len(game.pointHistory) - 1) :
                 HoldsGamePoint(game.pointHistory[k], side, target)})

\* C40: for every completed set the machine produces, the game points the
\* stats engine counts for a side are exactly the post-point snapshots at
\* which the set is undecided and that side's next point would complete it,
\* both sides at cap - 1 all included, the final snapshot counted for
\* neither side.
C40_GamePointsCounted ==
  (last.type = "FINISH" /\ SetJustFinished(state)
     /\ CompleteRecord(state.setFinishData[1])) =>
    LET game == state.setFinishData[1]
        stats == calculateGameStats(game, state.scoringSystem)
    IN  /\ stats.gamePointsA = GamePointsHeld(game, "A", state.scoringSystem)
        /\ stats.gamePointsB = GamePointsHeld(game, "B", state.scoringSystem)

====
